---------------------------- MODULE Spec2Model ----------------------------
(***************************************************************************)
(* A model of the term/value core of pikelet:                              *)
(*   nameless/src/var.rs     free/bound variables, close_at/open_at,       *)
(*                           alpha-equality                                 *)
(*   src/syntax/mod.rs       Level / LevelShift arithmetic (u32)           *)
(*   src/syntax/core.rs      Term, Value, Neutral, substs,                 *)
(*                           shift_universes (copy-on-write over Rc),      *)
(*                           the Value -> Term embedding                   *)
(*   src/syntax/parse/mod.rs reparse_pi_type_hack                          *)
(*                                                                         *)
(* Trees are tagged tuples <<"Tag", field, ...>>.  Four specifications     *)
(* share the variables: SpecVar drives one Var in place, SpecTerm builds   *)
(* terms and applies substs / bind / unbind, SpecValue builds values in a  *)
(* reference-counted heap and applies shift_universes, the embedding and   *)
(* the predicates on values, SpecParse parses the binder of a pi type.     *)
(***************************************************************************)
EXTENDS Integers, Sequences, FiniteSets, TLC

VARIABLES
    var,            \* SpecVar: the Var that close_at / open_at rewrite in place
    vlast,          \* SpecVar: the last call on var and its arguments
    term,           \* SpecTerm: the term under construction
    tlast,          \* SpecTerm: the last operation on term and its arguments
    next_gen,       \* SpecTerm: the global counter behind fresh names
    heap,           \* SpecValue: address -> <<strong count, node>> or FreeCell
    roots,          \* SpecValue: the handles the caller holds, slot -> address
    orig,           \* SpecValue: <<heap, roots>> as they were before the first shift
    applied,        \* SpecValue: per slot, the shifts applied through it since
    overflow_checks,\* SpecValue: whether the build panics on integer overflow
    panicked,       \* SpecValue: a shift panicked; the thread is unwinding
    hlast,          \* SpecValue: the last operation on the heap
    params,         \* SpecParse: the parameter term parsed so far
    pos,            \* SpecParse: the byte offset the parser has reached
    plast           \* SpecParse: the last step of the parser and its result

vars == <<var, vlast, term, tlast, next_gen, heap, roots, orig, applied,
          overflow_checks, panicked, hlast, params, pos, plast>>

varVars == <<var, vlast>>
termVars == <<term, tlast, next_gen>>
valueVars == <<heap, roots, orig, applied, overflow_checks, panicked, hlast>>
parseVars == <<params, pos, plast>>

\* a component that a specification does not drive stays idle
IdleVar == var = <<"Free", <<"User", "x">>>> /\ vlast = <<"idle">>
IdleTerm == term = <<"Record", <<>>>> /\ tlast = <<"idle">> /\ next_gen = 0
IdleValue ==
    /\ heap = <<>>
    /\ roots = <<>>
    /\ orig = <<>>
    /\ applied = <<>>
    /\ overflow_checks = FALSE
    /\ panicked = FALSE
    /\ hlast = <<"idle">>
IdleParse == params = <<"None">> /\ pos = 0 /\ plast = <<"idle">>

-----------------------------------------------------------------------------
(* Bounds of the model *)

\* de Bruijn indices range over 0..MaxIndex
MaxIndex == 2
\* fresh names Gen(0) .. Gen(MaxGen - 1) can be allocated
MaxGen == 2
\* terms are built up to this nesting depth
MaxDepth == 2
\* the heap of reference-counted nodes has cells 1..MaxNodes
MaxNodes == 8
\* at most MaxShifts shifts are applied through one handle
MaxShifts == 2

-----------------------------------------------------------------------------
(* Names *)

User(s) == <<"User", s>>
Gen(i) == <<"Gen", i>>

UserNames == {User("x"), User("y")}
GenNames == {Gen(i) : i \in 0..(MaxGen - 1)}
Names == UserNames \cup GenNames
Indices == 0..MaxIndex

-----------------------------------------------------------------------------
(* nameless/src/var.rs *)

Var_Free(n) == <<"Free", n>>
\* Bound(Named { name, inner }): the display name and the de Bruijn index
Var_Bound(n, i) == <<"Bound", n, i>>

IsFree(v) == v[1] = "Free"
IsBound(v) == v[1] = "Bound"

Vars == {Var_Free(n) : n \in Names}
            \cup {Var_Bound(n, i) : n \in Names, i \in Indices}

\* N::alpha_eq for a name: equality of names
Name_alpha_eq(lhs, rhs) == lhs = rhs

\* Named::alpha_eq: the inner values are compared, the display name is not
Named_alpha_eq(lhs, rhs) == lhs[3] = rhs[3]

Var_alpha_eq_FreeBoundEqual(self, other) ==
    CASE IsFree(self) /\ IsFree(other) -> Name_alpha_eq(self[2], other[2])
      [] IsBound(self) /\ IsBound(other) -> Named_alpha_eq(self, other)
      [] OTHER -> TRUE

Var_alpha_eq_BoundOrdered(self, other) ==
    CASE IsFree(self) /\ IsFree(other) -> Name_alpha_eq(self[2], other[2])
      [] IsBound(self) /\ IsBound(other) -> self[3] <= other[3]
      [] OTHER -> FALSE

Var_alpha_eq(self, other) ==
    CASE IsFree(self) /\ IsFree(other) -> Name_alpha_eq(self[2], other[2])
      [] IsBound(self) /\ IsBound(other) -> Named_alpha_eq(self, other)
      [] OTHER -> FALSE

Var_close_at_AnyFree(self, index, name) ==
    IF IsFree(self) THEN Var_Bound(self[2], index) ELSE self

Var_close_at_Toggle(self, index, name) ==
    IF IsFree(self) /\ self[2] = name THEN Var_Bound(self[2], index)
    ELSE IF IsBound(self) /\ self[2] = name /\ self[3] = index THEN Var_Free(name)
    ELSE self

Var_close_at(self, index, name) ==
    IF IsFree(self) /\ self[2] = name
    THEN Var_Bound(self[2], index)
    ELSE self

Var_open_at_AnyIndex(self, index, name) ==
    IF IsBound(self) THEN Var_Free(name) ELSE self

Var_open_at_StoredName(self, index, name) ==
    IF IsBound(self) /\ self[3] = index THEN Var_Free(self[2]) ELSE self

Var_open_at(self, index, name) ==
    IF IsBound(self) /\ self[3] = index
    THEN Var_Free(name)
    ELSE self

-----------------------------------------------------------------------------
(* SpecVar: one Var, rewritten in place by close_at and open_at and         *)
(* compared by alpha_eq.                                                    *)

InitVar ==
    /\ var \in Vars
    /\ vlast = <<"new">>
    /\ IdleTerm
    /\ IdleValue
    /\ IdleParse

CloseAt ==
    \E index \in Indices, name \in Names :
        /\ var' = Var_close_at(var, index, name)
        /\ vlast' = <<"close_at", var, index, name,
                      vlast[1] = "close_at" /\ vlast[3] = index /\ vlast[4] = name>>
        /\ UNCHANGED <<termVars, valueVars, parseVars>>

OpenAt ==
    \E index \in Indices, name \in Names :
        /\ var' = Var_open_at(var, index, name)
        /\ vlast' = <<"open_at", var, index, name>>
        /\ UNCHANGED <<termVars, valueVars, parseVars>>

AlphaEq ==
    \E other \in Vars :
        /\ var' = var
        /\ vlast' = <<"alpha_eq", other, Var_alpha_eq(var, other)>>
        /\ UNCHANGED <<termVars, valueVars, parseVars>>

NextVar ==
    \/ CloseAt
    \/ OpenAt
    \/ AlphaEq

-----------------------------------------------------------------------------
(* src/syntax/mod.rs: Level(pub u32) and LevelShift(pub u32).               *)
(* A u32 is kept as two 16-bit limbs <<hi, lo>>, value hi * 2^16 + lo, so   *)
(* that its full width fits the checker's integers.                         *)

U32Bits == 32
Limb == 2 ^ (U32Bits \div 2)

U32(hi, lo) == <<hi, lo>>
U32Max == U32(Limb - 1, Limb - 1)

\* the carry out of the low limb and the unreduced high limb of a + b
U32Carry(a, b) == (a[2] + b[2]) \div Limb
U32HighSum(a, b) == a[1] + b[1] + U32Carry(a, b)

\* a + b does not fit in 32 bits
U32Overflows(a, b) == U32HighSum(a, b) >= Limb

\* a + b modulo 2^32
U32WrappingAdd(a, b) == U32(U32HighSum(a, b) % Limb, (a[2] + b[2]) % Limb)

U32Less(a, b) == a[1] < b[1] \/ (a[1] = b[1] /\ a[2] < b[2])

\* `self.0 + other.0` on u32: with overflow checks the addition panics when
\* the sum does not fit, without them it wraps.  The result is <<ok, value>>.
U32Add(a, b, checks) ==
    IF checks /\ U32Overflows(a, b)
    THEN <<FALSE, a>>
    ELSE <<TRUE, U32WrappingAdd(a, b)>>

\* impl Add for LevelShift
LevelShift_add(self, other, checks) == U32Add(self, other, checks)

Level_add_assign_Overwrite(self, shift, checks) == <<TRUE, shift>>

\* impl AddAssign<LevelShift> for Level
Level_add_assign(self, shift, checks) == U32Add(self, shift, checks)

-----------------------------------------------------------------------------
(* src/syntax/core.rs: Literal, Pattern, Term *)

Lit_Bool(b) == <<"Bool", b>>
Lit_String(s) == <<"String", s>>

\* Pattern::Ann(RcPattern, Embed<RcTerm>)
P_Ann(pattern, ty) == <<"PAnn", pattern, ty>>
\* Pattern::Binder(Binder<String>)
P_Binder(name) == <<"PBinder", name>>
\* Pattern::Var(Embed<Var<String>>, LevelShift)
P_Var(v, shift) == <<"PVar", v, shift>>
\* Pattern::Literal(Literal)
P_Literal(lit) == <<"PLiteral", lit>>

T_Ann(t, ty) == <<"Ann", t, ty>>
T_Universe(level) == <<"Universe", level>>
T_Literal(lit) == <<"Literal", lit>>
T_Var(v, shift) == <<"Var", v, shift>>
T_Extern(name, ty) == <<"Extern", name, ty>>
\* Pi / Lam / Let hold Scope { unsafe_pattern: (Binder, Embed(ann)), unsafe_body }
T_Pi(binder, ann, body) == <<"Pi", binder, ann, body>>
T_Lam(binder, ann, body) == <<"Lam", binder, ann, body>>
T_Let(binder, ann, body) == <<"Let", binder, ann, body>>
T_App(head, arg) == <<"App", head, arg>>
T_If(cond, if_true, if_false) == <<"If", cond, if_true, if_false>>
\* RecordType / Record hold Scope { Nest { unsafe_patterns }, () };
\* a field is <<label, binder, Embed(term)>>
T_RecordType(fields) == <<"RecordType", fields>>
T_Record(fields) == <<"Record", fields>>
T_Proj(expr, label) == <<"Proj", expr, label>>
\* a clause is Scope { unsafe_pattern, unsafe_body }: <<pattern, body>>
T_Case(head, clauses) == <<"Case", head, clauses>>
T_Array(elems) == <<"Array", elems>>

Min(S) == CHOOSE x \in S : \A y \in S : x <= y

\* `var == name` for a Var and a FreeVar: only a Free variable of that name
Var_eq_FreeVar(v, name) == IsFree(v) /\ v[2] = name

\* mappings.iter().find(|&(ref name, _)| var == name): the first match
FindMapping(v, mappings) ==
    LET hits == {i \in DOMAIN mappings : Var_eq_FreeVar(v, mappings[i][1])}
    IN  IF hits = {} THEN <<FALSE, v>> ELSE <<TRUE, mappings[Min(hits)][2]>>

RECURSIVE Substs(_, _)
Substs(self, mappings) ==
    LET tag == self[1] IN
    CASE tag = "Ann" ->
            T_Ann(Substs(self[2], mappings), Substs(self[3], mappings))
      [] tag \in {"Universe", "Literal"} -> self
      [] tag = "Var" ->
            LET found == FindMapping(self[2], mappings)
            IN  IF found[1] THEN found[2] ELSE self
      [] tag = "Extern" -> T_Extern(self[2], Substs(self[3], mappings))
      [] tag = "Pi" ->
            T_Pi(self[2], Substs(self[3], mappings), Substs(self[4], mappings))
      [] tag = "Lam" ->
            T_Lam(self[2], Substs(self[3], mappings), Substs(self[4], mappings))
      [] tag = "Let" ->
            T_Let(self[2], Substs(self[3], mappings), Substs(self[4], mappings))
      [] tag = "App" ->
            T_App(Substs(self[2], mappings), Substs(self[3], mappings))
      [] tag = "If" ->
            T_If(Substs(self[2], mappings), Substs(self[3], mappings),
                 Substs(self[4], mappings))
      [] tag \in {"RecordType", "Record"} /\ self[2] = <<>> -> self
      [] tag = "RecordType" /\ self[2] # <<>> ->
            T_RecordType([i \in 1..Len(self[2]) |->
                <<self[2][i][1], self[2][i][2], Substs(self[2][i][3], mappings)>>])
      [] tag = "Record" /\ self[2] # <<>> ->
            T_Record([i \in 1..Len(self[2]) |->
                <<self[2][i][1], self[2][i][2], Substs(self[2][i][3], mappings)>>])
      [] tag = "Proj" -> T_Proj(Substs(self[2], mappings), self[3])
      [] tag = "Case" ->
            T_Case(Substs(self[2], mappings),
                   [i \in 1..Len(self[3]) |->
                        <<self[3][i][1], Substs(self[3][i][2], mappings)>>])
      [] tag = "Array" ->
            T_Array([i \in 1..Len(self[2]) |-> Substs(self[2][i], mappings)])

-----------------------------------------------------------------------------
(* The locally nameless traversals of Term and Pattern (derived code) and   *)
(* the Scope combinator.  They apply Var::close_at / Var::open_at at every  *)
(* variable, one index deeper under each Scope.                             *)

\* closing = TRUE: close_at(index, name); closing = FALSE: open_at(index, name)
Var_rewrite(v, index, name, closing) ==
    IF closing THEN Var_close_at(v, index, name) ELSE Var_open_at(v, index, name)

RECURSIVE Term_rewrite(_, _, _, _)
RECURSIVE Pattern_rewrite(_, _, _, _)

\* a pattern's embedded terms and variables live outside the scope it opens
Pattern_rewrite(p, index, name, closing) ==
    LET tag == p[1] IN
    CASE tag = "PAnn" ->
            P_Ann(Pattern_rewrite(p[2], index, name, closing),
                  Term_rewrite(p[3], index, name, closing))
      [] tag = "PBinder" -> p
      [] tag = "PVar" -> P_Var(Var_rewrite(p[2], index, name, closing), p[3])
      [] tag = "PLiteral" -> p

Term_rewrite(t, index, name, closing) ==
    LET tag == t[1] IN
    CASE tag = "Ann" ->
            T_Ann(Term_rewrite(t[2], index, name, closing),
                  Term_rewrite(t[3], index, name, closing))
      [] tag \in {"Universe", "Literal"} -> t
      [] tag = "Var" -> T_Var(Var_rewrite(t[2], index, name, closing), t[3])
      [] tag = "Extern" -> T_Extern(t[2], Term_rewrite(t[3], index, name, closing))
      [] tag \in {"Pi", "Lam", "Let"} ->
            <<tag, t[2], Term_rewrite(t[3], index, name, closing),
              Term_rewrite(t[4], index + 1, name, closing)>>
      [] tag = "App" ->
            T_App(Term_rewrite(t[2], index, name, closing),
                  Term_rewrite(t[3], index, name, closing))
      [] tag = "If" ->
            T_If(Term_rewrite(t[2], index, name, closing),
                 Term_rewrite(t[3], index, name, closing),
                 Term_rewrite(t[4], index, name, closing))
      [] tag \in {"RecordType", "Record"} ->
            \* a telescope: field k lies under the binders of the k - 1 before it
            <<tag, [i \in 1..Len(t[2]) |->
                <<t[2][i][1], t[2][i][2],
                  Term_rewrite(t[2][i][3], index + (i - 1), name, closing)>>]>>
      [] tag = "Proj" -> T_Proj(Term_rewrite(t[2], index, name, closing), t[3])
      [] tag = "Case" ->
            T_Case(Term_rewrite(t[2], index, name, closing),
                   [i \in 1..Len(t[3]) |->
                        <<Pattern_rewrite(t[3][i][1], index, name, closing),
                          Term_rewrite(t[3][i][2], index + 1, name, closing)>>])
      [] tag = "Array" ->
            T_Array([i \in 1..Len(t[2]) |-> Term_rewrite(t[2][i], index, name, closing)])

Term_close_at(t, index, name) == Term_rewrite(t, index, name, TRUE)
Term_open_at(t, index, name) == Term_rewrite(t, index, name, FALSE)

\* the names a pattern declares, in order
RECURSIVE Pattern_binders(_)
Pattern_binders(p) ==
    CASE p[1] = "PAnn" -> Pattern_binders(p[2])
      [] p[1] = "PBinder" -> <<p[2]>>
      [] OTHER -> <<>>

\* bind: Scope::new((Binder(name), Embed(ann)), body) closes name over body
\* at index 0; the annotation is embedded and is not closed.
Scope_bind(name, ann, body) == <<name, ann, Term_close_at(body, 0, name)>>

\* unbind: the binder is replaced by the fresh name and the body is opened
\* at index 0 with it.
Scope_unbind(scope, fresh) == <<fresh, scope[2], Term_open_at(scope[3], 0, fresh)>>

\* a case clause: the pattern's binder (if it declares one) is closed over the body
Clause_bind(pattern, body) ==
    LET bs == Pattern_binders(pattern)
    IN  <<pattern, IF bs = <<>> THEN body ELSE Term_close_at(body, 0, bs[1])>>

\* GenId::fresh(): the next value of the global counter
FreshName(counter) == Gen(counter)

-----------------------------------------------------------------------------
(* Alpha-equivalence of terms and patterns (derived code): structural, with *)
(* Var::alpha_eq at the variables; binder names are not compared.           *)

RECURSIVE Term_alpha_eq(_, _)
RECURSIVE Pattern_alpha_eq(_, _)

Pattern_alpha_eq(p, q) ==
    /\ p[1] = q[1]
    /\ CASE p[1] = "PAnn" ->
                Pattern_alpha_eq(p[2], q[2]) /\ Term_alpha_eq(p[3], q[3])
         [] p[1] = "PBinder" -> TRUE
         [] p[1] = "PVar" -> Var_alpha_eq(p[2], q[2]) /\ p[3] = q[3]
         [] p[1] = "PLiteral" -> p[2] = q[2]

Term_alpha_eq(a, b) ==
    /\ a[1] = b[1]
    /\ LET tag == a[1] IN
       CASE tag \in {"Ann", "App"} ->
                Term_alpha_eq(a[2], b[2]) /\ Term_alpha_eq(a[3], b[3])
         [] tag \in {"Universe", "Literal"} -> a[2] = b[2]
         [] tag = "Var" -> Var_alpha_eq(a[2], b[2]) /\ a[3] = b[3]
         [] tag = "Extern" -> a[2] = b[2] /\ Term_alpha_eq(a[3], b[3])
         [] tag \in {"Pi", "Lam", "Let"} ->
                Term_alpha_eq(a[3], b[3]) /\ Term_alpha_eq(a[4], b[4])
         [] tag = "If" ->
                /\ Term_alpha_eq(a[2], b[2])
                /\ Term_alpha_eq(a[3], b[3])
                /\ Term_alpha_eq(a[4], b[4])
         [] tag \in {"RecordType", "Record"} ->
                /\ Len(a[2]) = Len(b[2])
                /\ \A i \in 1..Len(a[2]) :
                        /\ a[2][i][1] = b[2][i][1]
                        /\ Term_alpha_eq(a[2][i][3], b[2][i][3])
         [] tag = "Proj" -> Term_alpha_eq(a[2], b[2]) /\ a[3] = b[3]
         [] tag = "Case" ->
                /\ Term_alpha_eq(a[2], b[2])
                /\ Len(a[3]) = Len(b[3])
                /\ \A i \in 1..Len(a[3]) :
                        /\ Pattern_alpha_eq(a[3][i][1], b[3][i][1])
                        /\ Term_alpha_eq(a[3][i][2], b[3][i][2])
         [] tag = "Array" ->
                /\ Len(a[2]) = Len(b[2])
                /\ \A i \in 1..Len(a[2]) : Term_alpha_eq(a[2][i], b[2][i])

-----------------------------------------------------------------------------
(* Measures of a term used by the guards and the properties *)

Max(S) == CHOOSE x \in S : \A y \in S : x >= y
UnionAll(f) == UNION {f[i] : i \in DOMAIN f}

\* the sub-terms a pattern embeds
RECURSIVE Pattern_terms(_)
Pattern_terms(p) ==
    CASE p[1] = "PAnn" -> Pattern_terms(p[2]) \o <<p[3]>>
      [] OTHER -> <<>>

\* the variables a pattern embeds
RECURSIVE Pattern_vars(_)
Pattern_vars(p) ==
    CASE p[1] = "PAnn" -> Pattern_vars(p[2])
      [] p[1] = "PVar" -> {p[2]}
      [] OTHER -> {}

\* the immediate sub-terms of a term, those embedded in its patterns included
Term_children(t) ==
    LET tag == t[1] IN
    CASE tag \in {"Ann", "App"} -> <<t[2], t[3]>>
      [] tag \in {"Universe", "Literal", "Var"} -> <<>>
      [] tag = "Extern" -> <<t[3]>>
      [] tag \in {"Pi", "Lam", "Let"} -> <<t[3], t[4]>>
      [] tag = "If" -> <<t[2], t[3], t[4]>>
      [] tag \in {"RecordType", "Record"} -> [i \in 1..Len(t[2]) |-> t[2][i][3]]
      [] tag = "Proj" -> <<t[2]>>
      [] tag = "Case" ->
            LET RECURSIVE Flat(_)
                Flat(k) == IF k = 0 THEN <<t[2]>>
                           ELSE Flat(k - 1) \o Pattern_terms(t[3][k][1]) \o <<t[3][k][2]>>
            IN  Flat(Len(t[3]))
      [] tag = "Array" -> t[2]

RECURSIVE Term_depth(_)
Term_depth(t) ==
    LET cs == Term_children(t)
    IN  IF cs = <<>> THEN 0
        ELSE 1 + Max({Term_depth(cs[i]) : i \in 1..Len(cs)})

\* the variables occurring in a term, pattern variables included
RECURSIVE Term_vars(_)
Term_vars(t) ==
    LET cs == Term_children(t)
        own == CASE t[1] = "Var" -> {t[2]}
                 [] t[1] = "Case" ->
                        UNION {Pattern_vars(t[3][i][1]) : i \in 1..Len(t[3])}
                 [] OTHER -> {}
    IN  own \cup UNION {Term_vars(cs[i]) : i \in 1..Len(cs)}

Term_free_names(t) == {v[2] : v \in {w \in Term_vars(t) : IsFree(w)}}

\* the binder names declared anywhere in a term
RECURSIVE Term_binder_names(_)
Term_binder_names(t) ==
    LET cs == Term_children(t)
        own == CASE t[1] \in {"Pi", "Lam", "Let"} -> {t[2]}
                 [] t[1] \in {"RecordType", "Record"} ->
                        {t[2][i][2] : i \in 1..Len(t[2])}
                 [] t[1] = "Case" ->
                        UNION {{Pattern_binders(t[3][i][1])[j] :
                                    j \in 1..Len(Pattern_binders(t[3][i][1]))} :
                               i \in 1..Len(t[3])}
                 [] OTHER -> {}
    IN  own \cup UNION {Term_binder_names(cs[i]) : i \in 1..Len(cs)}

-----------------------------------------------------------------------------
(* SpecTerm: a term is built bottom-up with the constructors (binders go    *)
(* through Scope::new), scopes are unbound with fresh names, and substs is  *)
(* applied to the result.                                                   *)

VarX == T_Var(Var_Free(User("x")), U32(0, 0))
VarY == T_Var(Var_Free(User("y")), U32(0, 1))

LeafTerms ==
    {T_Universe(U32(0, 0)), T_Literal(Lit_Bool(TRUE)), VarX, VarY, T_Record(<<>>)}

CasePatterns ==
    {P_Ann(P_Binder(User("y")), VarX), P_Binder(User("x")),
     P_Var(Var_Free(User("x")), U32(0, 0)), P_Literal(Lit_Bool(TRUE))}

\* the terms one constructor call makes of t
Wraps(t) ==
    {T_Ann(t, s) : s \in {VarX, T_Universe(U32(0, 1))}}
        \cup {T_Extern("prim", t)}
        \cup {<<tag, sc[1], sc[2], sc[3]>> :
                tag \in {"Pi", "Lam", "Let"},
                sc \in {Scope_bind(n, VarX, t) : n \in UserNames}}
        \cup {T_App(t, VarX), T_App(VarX, t)}
        \cup {T_If(t, VarX, T_Universe(U32(0, 1)))}
        \cup {T_RecordType(<<<<"l1", User("x"), t>>>>),
              T_Record(<<<<"l1", User("x"), VarX>>, <<"l2", User("y"), t>>>>)}
        \cup {T_Proj(t, "l1")}
        \cup {T_Case(VarX, <<Clause_bind(p, t)>>) : p \in CasePatterns}
        \cup {T_Case(t, <<>>)}
        \cup {T_Array(<<t, VarX>>)}

\* the substitutions applied: &[(FreeVar<String>, RcTerm)]
Mappings ==
    {<<>>,
     <<<<User("x"), T_Universe(U32(0, 3))>>>>,
     <<<<User("y"), VarX>>, <<User("x"), T_Literal(Lit_String("s"))>>>>,
     <<<<Gen(0), T_App(VarY, VarY)>>>>}

InitTerm ==
    /\ term \in LeafTerms
    /\ tlast = <<"new">>
    /\ next_gen = 0
    /\ IdleVar
    /\ IdleValue
    /\ IdleParse

Build ==
    /\ tlast[1] \in {"new", "build"}
    /\ Term_depth(term) < MaxDepth
    /\ \E t \in Wraps(term) :
        /\ term' = t
        /\ tlast' = <<"build", term>>
    /\ UNCHANGED <<next_gen, varVars, valueVars, parseVars>>

\* Scope::unbind on the scope at the root; the caller goes on with the body
Unbind ==
    /\ tlast[1] \in {"new", "build", "unbind"}
    /\ term[1] \in {"Pi", "Lam", "Let"}
    /\ next_gen < MaxGen
    /\ LET opened == Scope_unbind(<<term[2], term[3], term[4]>>, FreshName(next_gen))
           \* the body the scope was bound over, when the last step bound it
           bound_over == IF tlast[1] = "build" THEN <<tlast[2]>> ELSE <<>>
       IN  /\ term' = opened[3]
           /\ tlast' = <<"unbind", term, opened, bound_over>>
    /\ next_gen' = next_gen + 1
    /\ UNCHANGED <<varVars, valueVars, parseVars>>

SubstsCall ==
    /\ tlast[1] \in {"new", "build", "unbind"}
    /\ \E m \in Mappings :
        /\ term' = Substs(term, m)
        /\ tlast' = <<"substs", term, m>>
    /\ UNCHANGED <<next_gen, varVars, valueVars, parseVars>>

NextTerm ==
    \/ Build
    \/ Unbind
    \/ SubstsCall

-----------------------------------------------------------------------------
(* src/syntax/core.rs: Value, Head, Neutral behind Rc (RcValue, RcNeutral). *)
(* A node lives in a heap cell <<strong count, node>>; the Rc handles a     *)
(* node owns are the addresses stored in it.                                *)
(*   Value:   <<"Universe", level>>  <<"Literal", lit>>                     *)
(*            <<"Pi", binder, ann, body>>  <<"Lam", binder, ann, body>>     *)
(*            <<"RecordType", fields>>  <<"Record", fields>>                *)
(*                                 a field is <<label, binder, value>>      *)
(*            <<"Array", elems>>  <<"Neutral", neutral, spine>>             *)
(*   Neutral: <<"NVar", var, shift>>      Head(Head::Var(var, shift))       *)
(*            <<"NExtern", name, ty>>     Head(Head::Extern(name, ty))      *)
(*            <<"NIf", cond, if_true, if_false>>  <<"NProj", expr, label>>  *)
(*            <<"NCase", expr, clauses>>  a clause is <<pattern, body>>     *)
(* The same tuples with sub-trees in place of addresses are the trees a     *)
(* handle denotes.                                                          *)

NullAddr == 0
FreeCell == <<0, <<"Free">>>>
Addrs == 1..MaxNodes
Slots == {1, 2, 3}

ValueTags == {"Universe", "Literal", "Pi", "Lam", "RecordType", "Record",
              "Array", "Neutral"}

\* the places of a node that hold an Rc handle, in field order
ChildPaths(node) ==
    LET tag == node[1] IN
    CASE tag \in {"Universe", "Literal", "NVar", "Free"} -> <<>>
      [] tag \in {"Pi", "Lam"} -> <<<<3>>, <<4>>>>
      [] tag \in {"RecordType", "Record"} -> [i \in 1..Len(node[2]) |-> <<2, i, 3>>]
      [] tag = "Array" -> [i \in 1..Len(node[2]) |-> <<2, i>>]
      [] tag = "Neutral" -> <<<<2>>>> \o [i \in 1..Len(node[3]) |-> <<3, i>>]
      [] tag = "NExtern" -> <<<<3>>>>
      [] tag = "NIf" -> <<<<2>>, <<3>>, <<4>>>>
      [] tag = "NProj" -> <<<<2>>>>
      [] tag = "NCase" -> <<<<2>>>> \o [i \in 1..Len(node[3]) |-> <<3, i, 2>>]

GetAt(node, path) ==
    IF Len(path) = 1 THEN node[path[1]]
    ELSE IF Len(path) = 2 THEN node[path[1]][path[2]]
    ELSE node[path[1]][path[2]][path[3]]

SetAt(node, path, v) ==
    IF Len(path) = 1 THEN [node EXCEPT ![path[1]] = v]
    ELSE IF Len(path) = 2 THEN [node EXCEPT ![path[1]][path[2]] = v]
    ELSE [node EXCEPT ![path[1]][path[2]][path[3]] = v]

\* the handles a node owns, in field order
ChildAddrs(node) == [i \in 1..Len(ChildPaths(node)) |-> GetAt(node, ChildPaths(node)[i])]

\* the tree a handle denotes (Deref all the way down)
RECURSIVE Tree(_, _)
Tree(cells, a) ==
    LET node == cells[a][2]
        ps == ChildPaths(node)
        RECURSIVE Fill(_, _)
        Fill(n, i) ==
            IF i > Len(ps) THEN n
            ELSE Fill(SetAt(n, ps[i], Tree(cells, GetAt(node, ps[i]))), i + 1)
    IN  Fill(node, 1)

FreeAddrs(cells) == {a \in DOMAIN cells : cells[a][1] = 0}

\* Rc::new(node): a fresh cell with strong count 1
\* (the lowest free address stands for the allocator's choice)
Rc_new(cells, node) ==
    LET a == Min(FreeAddrs(cells))
    IN  <<[cells EXCEPT ![a] = <<1, node>>], a>>

\* Rc::clone of every handle in addrs: each strong count goes up by one
RECURSIVE Rc_clone_all(_, _)
Rc_clone_all(cells, addrs) ==
    IF addrs = <<>> THEN cells
    ELSE Rc_clone_all([cells EXCEPT ![Head(addrs)][1] = @ + 1], Tail(addrs))

Rc_make_mut_InPlace(cells, a) == <<cells, a, TRUE>>

\* Rc::make_mut(&mut handle): with a strong count of 1 the node is handed out
\* as it is; otherwise the node is cloned into a fresh Rc (the clone holds a
\* clone of every handle the node owns) and the handle is moved to the copy,
\* giving up its count on the original.  The result is
\* <<cells, the address the handle now holds, whether a cell was available>>.
Rc_make_mut(cells, a) ==
    IF cells[a][1] = 1 THEN <<cells, a, TRUE>>
    ELSE IF FreeAddrs(cells) = {} THEN <<cells, a, FALSE>>
    ELSE LET node == cells[a][2]
             cloned == Rc_clone_all(cells, ChildAddrs(node))
             made == Rc_new(cloned, node)
         IN  <<[made[1] EXCEPT ![a][1] = @ - 1], made[2], TRUE>>

-----------------------------------------------------------------------------
(* RcValue::shift_universes and RcNeutral::shift_universes *)

VisitedFields_SpineSkipped(node) ==
    LET tag == node[1] IN
    CASE tag \in {"Literal", "NVar"} -> <<>>
      [] tag \in {"Pi", "Lam"} -> <<<<3>>, <<4>>>>
      [] tag \in {"RecordType", "Record"} -> [i \in 1..Len(node[2]) |-> <<2, i, 3>>]
      [] tag = "Array" -> [i \in 1..Len(node[2]) |-> <<2, i>>]
      [] tag = "Neutral" -> <<<<2>>>>
      [] tag = "NExtern" -> <<<<3>>>>
      [] tag = "NIf" -> <<<<2>>, <<3>>, <<4>>>>
      [] tag = "NProj" -> <<<<2>>>>
      [] tag = "NCase" -> <<<<2>>>> \o [i \in 1..Len(node[3]) |-> <<3, i, 2>>]

\* the handles each match arm calls shift_universes on, in call order;
\* the patterns of case clauses and the shift of a variable head are not visited
VisitedFields(node) ==
    LET tag == node[1] IN
    CASE tag \in {"Literal", "NVar"} -> <<>>
      [] tag \in {"Pi", "Lam"} -> <<<<3>>, <<4>>>>
      [] tag \in {"RecordType", "Record"} -> [i \in 1..Len(node[2]) |-> <<2, i, 3>>]
      [] tag = "Array" -> [i \in 1..Len(node[2]) |-> <<2, i>>]
      [] tag = "Neutral" -> <<<<2>>>> \o [i \in 1..Len(node[3]) |-> <<3, i>>]
      [] tag = "NExtern" -> <<<<3>>>>
      [] tag = "NIf" -> <<<<2>>, <<3>>, <<4>>>>
      [] tag = "NProj" -> <<<<2>>>>
      [] tag = "NCase" -> <<<<2>>>> \o [i \in 1..Len(node[3]) |-> <<3, i, 2>>]

\* H = [cells, checks, panicked, exhausted]: the heap, whether additions are
\* overflow-checked, whether an addition has panicked, and whether the model
\* ran out of cells.  The result is <<H, the address the handle now holds>>.
RECURSIVE shift_universes(_, _, _)
RECURSIVE shift_fields(_, _, _, _, _)

shift_universes(H, a, shift) ==
    LET mm == Rc_make_mut(H.cells, a)
        b == mm[2]
        node == mm[1][b][2]
        H1 == [H EXCEPT !.cells = mm[1]]
    IN  IF ~mm[3] THEN <<[H EXCEPT !.exhausted = TRUE], a>>
        ELSE IF node[1] = "Universe"
        THEN LET sum == Level_add_assign(node[2], shift, H.checks)
             IN  IF sum[1]
                 THEN <<[H1 EXCEPT !.cells[b][2] = <<"Universe", sum[2]>>], b>>
                 ELSE <<[H1 EXCEPT !.panicked = TRUE], b>>
        ELSE <<shift_fields(H1, b, VisitedFields(node), 1, shift), b>>

\* the calls on the fields ps[i..] of the node at b; a panic unwinds past the rest
shift_fields(H, b, ps, i, shift) ==
    IF i > Len(ps) \/ H.panicked \/ H.exhausted THEN H
    ELSE LET r == shift_universes(H, GetAt(H.cells[b][2], ps[i]), shift)
             H2 == [r[1] EXCEPT !.cells[b][2] = SetAt(@, ps[i], r[2])]
         IN  shift_fields(H2, b, ps, i + 1, shift)

-----------------------------------------------------------------------------
(* impl From<&Value> for Term, From<&Neutral> for Term, From<&Head> for     *)
(* Term: the embedding of a value (read through its handles) into syntax.   *)

RECURSIVE SpineFold_Reversed(_, _)
SpineFold_Reversed(acc, args) ==
    IF args = <<>> THEN acc
    ELSE SpineFold_Reversed(T_App(acc, args[Len(args)]), SubSeq(args, 1, Len(args) - 1))

\* spine.iter().fold(head, |acc, arg| Term::App(acc, arg)), over the spine
\* already turned into terms
RECURSIVE SpineFold(_, _)
SpineFold(acc, args) ==
    IF args = <<>> THEN acc
    ELSE SpineFold(T_App(acc, args[1]), SubSeq(args, 2, Len(args)))

RECURSIVE Term_from_Value(_)
RECURSIVE Term_from_Neutral(_)

Term_from_Neutral(src) ==
    LET tag == src[1] IN
    CASE tag = "NVar" -> T_Var(src[2], src[3])
      [] tag = "NExtern" -> T_Extern(src[2], Term_from_Value(src[3]))
      [] tag = "NIf" ->
            T_If(Term_from_Neutral(src[2]), Term_from_Value(src[3]),
                 Term_from_Value(src[4]))
      [] tag = "NProj" -> T_Proj(Term_from_Neutral(src[2]), src[3])
      [] tag = "NCase" ->
            T_Case(Term_from_Neutral(src[2]),
                   [i \in 1..Len(src[3]) |->
                        <<src[3][i][1], Term_from_Value(src[3][i][2])>>])

Term_from_Value(src) ==
    LET tag == src[1] IN
    CASE tag = "Universe" -> T_Universe(src[2])
      [] tag = "Literal" -> T_Literal(src[2])
      [] tag = "Pi" ->
            T_Pi(src[2], Term_from_Value(src[3]), Term_from_Value(src[4]))
      [] tag = "Lam" ->
            T_Lam(src[2], Term_from_Value(src[3]), Term_from_Value(src[4]))
      [] tag = "RecordType" ->
            T_RecordType([i \in 1..Len(src[2]) |->
                <<src[2][i][1], src[2][i][2], Term_from_Value(src[2][i][3])>>])
      [] tag = "Record" ->
            T_Record([i \in 1..Len(src[2]) |->
                <<src[2][i][1], src[2][i][2], Term_from_Value(src[2][i][3])>>])
      [] tag = "Array" ->
            T_Array([i \in 1..Len(src[2]) |-> Term_from_Value(src[2][i])])
      [] tag = "Neutral" ->
            SpineFold(Term_from_Neutral(src[2]),
                      [i \in 1..Len(src[3]) |-> Term_from_Value(src[3][i])])

-----------------------------------------------------------------------------------------------------------------------------------------------------
(* Value::is_whnf, Value::is_nf, Value::head_app, Value::free_var_app, on   *)
(* the value a handle denotes.  An Option is <<"None">> or <<"Some", ...>>. *)

Value_is_whnf_PiStuck(self) == self[1] \notin {"Neutral", "Pi"}

Value_is_whnf(self) ==
    LET tag == self[1] IN
    CASE tag \in {"Universe", "Literal", "Pi", "Lam", "RecordType", "Record",
                  "Array"} -> TRUE
      [] tag = "Neutral" -> FALSE

RECURSIVE Value_is_nf_BodyOnly(_)
Value_is_nf_BodyOnly(self) ==
    LET tag == self[1] IN
    CASE tag \in {"Universe", "Literal"} -> TRUE
      [] tag \in {"Pi", "Lam"} -> Value_is_nf_BodyOnly(self[4])
      [] tag \in {"RecordType", "Record"} ->
            \A i \in 1..Len(self[2]) : Value_is_nf_BodyOnly(self[2][i][3])
      [] tag = "Array" -> \A i \in 1..Len(self[2]) : Value_is_nf_BodyOnly(self[2][i])
      [] tag = "Neutral" -> FALSE

RECURSIVE Value_is_nf(_)
Value_is_nf(self) ==
    LET tag == self[1] IN
    CASE tag \in {"Universe", "Literal"} -> TRUE
      [] tag \in {"Pi", "Lam"} -> Value_is_nf(self[3]) /\ Value_is_nf(self[4])
      [] tag \in {"RecordType", "Record"} ->
            \A i \in 1..Len(self[2]) : Value_is_nf(self[2][i][3])
      [] tag = "Array" -> \A i \in 1..Len(self[2]) : Value_is_nf(self[2][i])
      [] tag = "Neutral" -> FALSE

Value_head_app_AnyNeutral(self) ==
    IF self[1] = "Neutral" THEN <<"Some", self[2], self[3]>> ELSE <<"None">>

\* Neutral::Head(head) is a neutral tagged "NVar" or "NExtern"
Value_head_app(self) ==
    IF self[1] = "Neutral"
    THEN IF self[2][1] \in {"NVar", "NExtern"}
         THEN <<"Some", self[2], self[3]>>
         ELSE <<"None">>
    ELSE <<"None">>

Value_free_var_app_AnyVar(self) ==
    LET app == Value_head_app(self) IN
    IF app[1] = "Some" /\ app[2][1] = "NVar"
    THEN <<"Some", app[2][2][2], app[2][3], app[3]>>
    ELSE <<"None">>

\* self.head_app().and_then(..): the FreeVar, the shift and the spine
Value_free_var_app(self) ==
    LET app == Value_head_app(self) IN
    IF app[1] = "None" THEN <<"None">>
    ELSE LET head == app[2] IN
         CASE head[1] = "NVar" /\ IsFree(head[2]) ->
                <<"Some", head[2][2], head[3], app[3]>>
           [] head[1] = "NExtern" \/ (head[1] = "NVar" /\ IsBound(head[2])) ->
                <<"None">>

-----------------------------------------------------------------------------
(* SpecValue: a caller holds the handles roots[1], roots[2], ...; it makes  *)
(* them one after the other, each a new value built over clones of the      *)
(* handles made before it or a clone of one of them, and then either        *)
(* applies shift_universes through one of them or reads one of them (the    *)
(* embedding into terms, is_whnf, is_nf, head_app, free_var_app).           *)

Levels == {U32(0, 3), U32Max}
Shifts == {U32(0, 0), U32(0, 1), U32(0, 2)}

Filled == {k \in Slots : roots[k] # NullAddr}
Newest == Cardinality(Filled)
NextSlot == Newest + 1

\* the handles a constructor call clones into the new node: the newest one,
\* or the two newest in either order
Unary == IF Newest = 0 THEN {} ELSE {Newest}
Pairs ==
    IF Newest = 0 THEN {}
    ELSE IF Newest = 1 THEN {<<1, 1>>}
    ELSE {<<Newest, Newest - 1>>, <<Newest - 1, Newest>>}

NeutralSlots == {k \in Filled : heap[roots[k]][2][1] = "Neutral"}
Scrutinee == IF NeutralSlots = {} THEN {} ELSE {Max(NeutralSlots)}

\* the canonical values one constructor call makes; a child is the number of
\* the slot whose handle is cloned into it
CanonicalTemplates ==
    {<<"Universe", l>> : l \in Levels}
        \cup {<<"Literal", Lit_Bool(TRUE)>>}
        \cup {<<"Pi", User("x"), p[1], p[2]>> : p \in Pairs}
        \cup {<<"Lam", User("y"), i, i>> : i \in Unary}
        \cup {<<"RecordType", <<<<"l1", User("x"), i>>>>>> : i \in Unary}
        \cup {<<"Record", <<<<"l1", User("x"), p[1]>>, <<"l2", User("y"), p[2]>>>>>> :
                p \in Pairs}
        \cup {<<"Record", <<>>>>}
        \cup {<<"Array", <<p[1], p[2]>>>> : p \in Pairs}

\* the neutral terms one constructor call makes; the scrutinee c of If, Proj
\* and Case is a slot holding a Value::Neutral, whose RcNeutral is cloned
NeutralTemplates ==
    {<<"NVar", Var_Free(User("f")), U32(0, 1)>>,
     <<"NVar", Var_Bound(User("x"), 0), U32(0, 0)>>}
        \cup {<<"NExtern", "prim", i>> : i \in Unary}
        \cup {<<"NIf", c, p[1], p[2]>> : c \in Scrutinee, p \in Pairs}
        \cup {<<"NProj", c, "l1">> : c \in Scrutinee}
        \cup {<<"NCase", c, <<<<P_Ann(P_Binder(User("y")), T_Universe(U32(0, 3))), i>>>>>> :
                c \in Scrutinee, i \in Unary}

SpineTemplates ==
    {<<>>} \cup {<<i>> : i \in Unary}
           \cup (IF Newest >= 2 THEN {<<Newest - 1, Newest>>} ELSE {})

\* the handle a template's child clones: the slot's own handle, or for the
\* scrutinee of If / Proj / Case the RcNeutral inside the slot's value
SourceAddr(tmpl, path) ==
    IF tmpl[1] \in {"NIf", "NProj", "NCase"} /\ path = <<2>>
    THEN heap[roots[tmpl[2]]][2][2]
    ELSE roots[GetAt(tmpl, path)]

\* the node a template denotes, every child a clone of its source handle
Instantiate(tmpl) ==
    LET ps == ChildPaths(tmpl)
        RECURSIVE Fill(_, _)
        Fill(n, i) ==
            IF i > Len(ps) THEN n
            ELSE Fill(SetAt(n, ps[i], SourceAddr(tmpl, ps[i])), i + 1)
    IN  Fill(tmpl, 1)

\* RcValue::from(value) / RcNeutral::from(neutral) of a node whose children are clones
Rc_from(cells, node) == Rc_new(Rc_clone_all(cells, ChildAddrs(node)), node)

\* values are built before they are shifted or embedded
Building == hlast[1] \in {"new", "build"}

InitValue ==
    /\ heap = [a \in Addrs |-> FreeCell]
    /\ roots = [k \in Slots |-> NullAddr]
    /\ orig = <<>>
    /\ applied = [k \in Slots |-> <<>>]
    /\ overflow_checks \in BOOLEAN
    /\ panicked = FALSE
    /\ hlast = <<"new">>
    /\ IdleVar
    /\ IdleTerm
    /\ IdleParse

\* the next handle of the caller is the one at address a of the heap cells
Assign(cells, a) ==
    /\ heap' = cells
    /\ roots' = [roots EXCEPT ![NextSlot] = a]
    /\ hlast' = <<"build">>
    /\ UNCHANGED <<orig, applied, overflow_checks, panicked, varVars, termVars, parseVars>>

NewCanonical ==
    /\ Building
    /\ NextSlot \in Slots
    /\ FreeAddrs(heap) # {}
    /\ \E tmpl \in CanonicalTemplates :
        LET made == Rc_from(heap, Instantiate(tmpl))
        IN  Assign(made[1], made[2])

NewNeutral ==
    /\ Building
    /\ NextSlot \in Slots
    /\ Cardinality(FreeAddrs(heap)) >= 2
    /\ \E tmpl \in NeutralTemplates, spine \in SpineTemplates :
        LET neutral == Rc_from(heap, Instantiate(tmpl))
            spine_addrs == [i \in 1..Len(spine) |-> roots[spine[i]]]
            value == Rc_from(neutral[1], <<"Neutral", neutral[2], spine_addrs>>)
        IN  Assign([value[1] EXCEPT ![neutral[2]][1] = @ - 1], value[2])

\* let next = roots[i].clone()
CloneHandle ==
    /\ Building
    /\ NextSlot \in Slots
    /\ \E i \in Filled : Assign(Rc_clone_all(heap, <<roots[i]>>), roots[i])

\* roots[k].shift_universes(shift); the heap and the handles as they were
\* before the first shift are kept in orig, and the shifts in applied[k]
ShiftUniverses ==
    /\ ~panicked
    /\ hlast[1] \in {"build", "shift"}
    /\ \E k \in Filled, shift \in Shifts :
        /\ Len(applied[k]) < MaxShifts
        /\ \A j \in Slots \ {k} : applied[j] = <<>>
        /\ LET H == [cells |-> heap, checks |-> overflow_checks,
                     panicked |-> FALSE, exhausted |-> FALSE]
               r == shift_universes(H, roots[k], shift)
           IN  /\ ~r[1].exhausted
               /\ heap' = r[1].cells
               /\ roots' = [roots EXCEPT ![k] = r[2]]
               /\ panicked' = r[1].panicked
        /\ orig' = IF applied[k] = <<>> THEN <<heap, roots>> ELSE orig
        /\ applied' = [applied EXCEPT ![k] = Append(@, shift)]
        /\ hlast' = <<"shift", k, shift>>
        /\ UNCHANGED <<overflow_checks, varVars, termVars, parseVars>>

\* Term::from(&*roots[k])
Embed ==
    /\ Building
    /\ \E k \in Filled :
        /\ hlast' = <<"embed", k, Term_from_Value(Tree(heap, roots[k]))>>
        /\ UNCHANGED <<heap, roots, orig, applied, overflow_checks, panicked,
                       varVars, termVars, parseVars>>

\* a call through handle k that only reads the value: hlast takes the call
\* and what it returned
Observe(name, k, result) ==
    /\ hlast' = <<name, k, result>>
    /\ UNCHANGED <<heap, roots, orig, applied, overflow_checks, panicked,
                   varVars, termVars, parseVars>>

\* roots[k].is_whnf()
IsWhnf ==
    /\ Building
    /\ \E k \in Filled : Observe("is_whnf", k, Value_is_whnf(Tree(heap, roots[k])))

\* roots[k].is_nf()
IsNf ==
    /\ Building
    /\ \E k \in Filled : Observe("is_nf", k, Value_is_nf(Tree(heap, roots[k])))

\* roots[k].head_app()
HeadApp ==
    /\ Building
    /\ \E k \in Filled : Observe("head_app", k, Value_head_app(Tree(heap, roots[k])))

\* roots[k].free_var_app()
FreeVarApp ==
    /\ Building
    /\ \E k \in Filled :
        Observe("free_var_app", k, Value_free_var_app(Tree(heap, roots[k])))

NextValue ==
    \/ NewCanonical
    \/ NewNeutral
    \/ CloneHandle
    \/ ShiftUniverses
    \/ Embed
    \/ IsWhnf
    \/ IsNf
    \/ HeadApp
    \/ FreeVarApp

-----------------------------------------------------------------------------
(* src/syntax/parse/mod.rs: reparse_pi_type_hack.  A concrete term is       *)
(*   <<"CVar", span, name>>   <<"CApp", fn_expr, arg>>                      *)
(*   <<"CParens", span, term>>   <<"CAnn", expr, ann>>                      *)
(*   <<"CUniverse", span>>    (the keyword Type)                            *)
(*   <<"CPi", lo, names, ann, body>>   <<"CArrow", ann, body>>              *)
(* and a span is <<lo, hi>>, a pair of byte offsets.                        *)

MaxParams == 3

C_Var(span, name) == <<"CVar", span, name>>
C_App(fn_expr, arg) == <<"CApp", fn_expr, arg>>
C_Parens(span, t) == <<"CParens", span, t>>
C_Ann(expr, ann) == <<"CAnn", expr, ann>>
C_Universe(span) == <<"CUniverse", span>>
C_Pi(lo, names, ann, body) == <<"CPi", lo, names, ann, body>>
C_Arrow(ann, body) == <<"CArrow", ann, body>>

\* concrete::Term::span: from the first byte of the term to its last
RECURSIVE Term_span(_)
Term_span(t) ==
    LET tag == t[1] IN
    CASE tag \in {"CVar", "CParens", "CUniverse"} -> t[2]
      [] tag \in {"CApp", "CAnn", "CArrow"} ->
            <<Term_span(t[2])[1], Term_span(t[3])[2]>>
      [] tag = "CPi" -> <<t[2], Term_span(t[5])[2]>>

RECURSIVE param_names_ArgFirst(_, _)
param_names_ArgFirst(t, names) ==
    CASE t[1] = "CVar" -> <<"Ok", Append(names, <<t[2], t[3]>>)>>
      [] t[1] = "CApp" ->
            LET r == param_names_ArgFirst(t[3], names)
            IN  IF r[1] = "Err" THEN r ELSE param_names_ArgFirst(t[2], r[2])
      [] OTHER -> <<"Err", <<"IdentifierExpectedInPiType", Term_span(t)>>>>

\* param_names(term, &mut names): <<"Ok", names>> or <<"Err", error>>; the `?`
\* after the call on fn_expr returns its error before arg is visited
RECURSIVE param_names(_, _)
param_names(t, names) ==
    CASE t[1] = "CVar" -> <<"Ok", Append(names, <<t[2], t[3]>>)>>
      [] t[1] = "CApp" ->
            LET r == param_names(t[2], names)
            IN  IF r[1] = "Err" THEN r ELSE param_names(t[3], r[2])
      [] OTHER -> <<"Err", <<"IdentifierExpectedInPiType", Term_span(t)>>>>

\* reparse_pi_type_hack(span, binder, body): <<"Ok", term>> or <<"Err", error>>
reparse_pi_type_hack(span, binder, body) ==
    IF binder[1] = "CParens"
    THEN LET paren_span == binder[2]
             t == binder[3]
         IN  IF t[1] = "CAnn"
             THEN LET r == param_names(t[2], <<>>)
                  IN  IF r[1] = "Err" THEN r
                      ELSE <<"Ok", C_Pi(span[1], r[2], t[3], body)>>
             ELSE <<"Ok", C_Arrow(C_Parens(paren_span, t), body)>>
    ELSE <<"Ok", C_Arrow(binder, body)>>

-----------------------------------------------------------------------------
(* SpecParse: the parser reads "(" params [" : Type"] ")" " -> Type" or     *)
(* " " params " -> Type" from byte 0, one parameter atom after the other,   *)
(* and then calls reparse_pi_type_hack on the binder and the body.          *)

\* the atoms of a parameter list, each starting at byte `at`:
\*   x   y   Type   (y)   (x : Type)
Atoms(at) ==
    {C_Var(<<at, at + 1>>, "x"),
     C_Var(<<at, at + 1>>, "y"),
     C_Universe(<<at, at + 4>>),
     C_Parens(<<at, at + 3>>, C_Var(<<at + 1, at + 2>>, "y")),
     C_Parens(<<at, at + 10>>,
              C_Ann(C_Var(<<at + 1, at + 2>>, "x"), C_Universe(<<at + 5, at + 9>>)))}

\* the number of atoms of a left-nested application
RECURSIVE AtomCount(_)
AtomCount(t) ==
    IF t = <<"None">> THEN 0
    ELSE IF t[1] = "CApp" THEN AtomCount(t[2]) + 1
    ELSE 1

InitParse ==
    /\ params = <<"None">>
    /\ pos = 1
    /\ plast = <<"new">>
    /\ IdleVar
    /\ IdleTerm
    /\ IdleValue

\* one more atom of the parameter list; atoms after the first follow a space
ParseAtom ==
    /\ plast[1] \in {"new", "parse"}
    /\ AtomCount(params) < MaxParams
    /\ LET at == IF params = <<"None">> THEN pos ELSE pos + 1 IN
       \E atom \in Atoms(at) :
            /\ params' = IF params = <<"None">> THEN atom ELSE C_App(params, atom)
            /\ pos' = Term_span(atom)[2]
    /\ plast' = <<"parse">>
    /\ UNCHANGED <<varVars, termVars, valueVars>>

\* the binder and the body of each form of the source, with params ending at pos
Binders ==
    {<<C_Parens(<<0, pos + 8>>, C_Ann(params, C_Universe(<<pos + 3, pos + 7>>))),
       C_Universe(<<pos + 12, pos + 16>>)>>,
     <<C_Parens(<<0, pos + 1>>, params), C_Universe(<<pos + 5, pos + 9>>)>>,
     <<params, C_Universe(<<pos + 4, pos + 8>>)>>}

\* the PiTerm rule: reparse_pi_type_hack(span of the source, binder, body)
Reparse ==
    /\ plast[1] = "parse"
    /\ \E b \in Binders :
        LET span == <<0, Term_span(b[2])[2]>>
        IN  plast' = <<"reparse", b[1], b[2], reparse_pi_type_hack(span, b[1], b[2])>>
    /\ UNCHANGED <<params, pos, varVars, termVars, valueVars>>

NextParse ==
    \/ ParseAtom
    \/ Reparse

-----------------------------------------------------------------------------
(* Specifications *)

SpecVar == InitVar /\ [][NextVar]_vars

SpecTerm == InitTerm /\ [][NextTerm]_vars

SpecValue == InitValue /\ [][NextValue]_vars

SpecParse == InitParse /\ [][NextParse]_vars

-----------------------------------------------------------------------------
(* Properties of the variable model (SpecVar) *)

\* C8: Var::close_at(index, name) turns the variable into Bound(name, index)
\* exactly when it is Free(name); a Free variable of another name and every
\* Bound variable, whatever its index, are left unchanged.
C8_CloseAtRewritesExactlyFreeName ==
    vlast[1] = "close_at" =>
        LET before == vlast[2]
            index == vlast[3]
            name == vlast[4]
        IN  /\ (before[1] = "Free" /\ before[2] = name)
                => var = <<"Bound", name, index>>
            /\ ~(before[1] = "Free" /\ before[2] = name)
                => var = before
            /\ (var # before) <=> (before = <<"Free", name>>)

\* a Free(name) variable has just been closed at index 1
C8_Witness ==
    /\ vlast[1] = "close_at"
    /\ vlast[2] = <<"Free", vlast[4]>>
    /\ vlast[3] = 1
    /\ var = <<"Bound", vlast[4], 1>>

\* C9: Var::open_at(index, name) turns the variable into Free(name) exactly
\* when it is Bound with that index, whatever display name it stores; a Bound
\* variable of another index and every Free variable are left unchanged.
C9_OpenAtRewritesExactlyBoundIndex ==
    vlast[1] = "open_at" =>
        LET before == vlast[2]
            index == vlast[3]
            name == vlast[4]
        IN  /\ (before[1] = "Bound" /\ before[3] = index)
                => var = <<"Free", name>>
            /\ ~(before[1] = "Bound" /\ before[3] = index)
                => var = before

\* a Bound variable whose display name differs from the new name was opened
C9_Witness ==
    /\ vlast[1] = "open_at"
    /\ vlast[2][1] = "Bound"
    /\ vlast[2][3] = vlast[3]
    /\ vlast[2][2] # vlast[4]
    /\ var = <<"Free", vlast[4]>>

\* C10: Var::alpha_eq holds between two Bound variables iff their indices are
\* equal, whatever the display names; between two Free variables iff their
\* names are equal; and never between a Free and a Bound variable.
C10_AlphaEqOfVars ==
    vlast[1] = "alpha_eq" =>
        LET other == vlast[2]
            result == vlast[3]
        IN  /\ (var[1] = "Bound" /\ other[1] = "Bound")
                => (result <=> var[3] = other[3])
            /\ (var[1] = "Free" /\ other[1] = "Free")
                => (result <=> var[2] = other[2])
            /\ (var[1] # other[1]) => ~result

\* two Bound variables of the same index and different display names compared equal
C10_Witness ==
    /\ vlast[1] = "alpha_eq"
    /\ var[1] = "Bound"
    /\ vlast[2][1] = "Bound"
    /\ var[2] # vlast[2][2]
    /\ var[3] = vlast[2][3]
    /\ vlast[3] = TRUE

-----------------------------------------------------------------------------
(* Properties of substitution and binding (SpecTerm) *)

MappingDomain(m) == {m[i][1] : i \in DOMAIN m}
MappedTerm(m, name) == m[CHOOSE i \in DOMAIN m : m[i][1] = name][2]

\* The tree C1 describes: every Free variable occurrence whose name is a key
\* of m, anywhere in the tree (the terms embedded in case patterns included),
\* is the mapped term; everything else is as it was.
RECURSIVE Replaced(_, _)
RECURSIVE ReplacedPattern(_, _)

ReplacedPattern(p, m) ==
    CASE p[1] = "PAnn" -> P_Ann(ReplacedPattern(p[2], m), Replaced(p[3], m))
      [] OTHER -> p

Replaced(t, m) ==
    LET tag == t[1] IN
    CASE tag = "Var" ->
            IF IsFree(t[2]) /\ t[2][2] \in MappingDomain(m)
            THEN MappedTerm(m, t[2][2])
            ELSE t
      [] tag \in {"Universe", "Literal"} -> t
      [] tag \in {"Ann", "App"} -> <<tag, Replaced(t[2], m), Replaced(t[3], m)>>
      [] tag = "Extern" -> <<tag, t[2], Replaced(t[3], m)>>
      [] tag \in {"Pi", "Lam", "Let"} ->
            <<tag, t[2], Replaced(t[3], m), Replaced(t[4], m)>>
      [] tag = "If" ->
            <<tag, Replaced(t[2], m), Replaced(t[3], m), Replaced(t[4], m)>>
      [] tag \in {"RecordType", "Record"} ->
            <<tag, [i \in 1..Len(t[2]) |->
                        <<t[2][i][1], t[2][i][2], Replaced(t[2][i][3], m)>>]>>
      [] tag = "Proj" -> <<tag, Replaced(t[2], m), t[3]>>
      [] tag = "Case" ->
            <<tag, Replaced(t[2], m),
              [i \in 1..Len(t[3]) |->
                    <<ReplacedPattern(t[3][i][1], m), Replaced(t[3][i][2], m)>>]>>
      [] tag = "Array" -> <<tag, [i \in 1..Len(t[2]) |-> Replaced(t[2][i], m)]>>

\* C1: for every term t and every mapping m whose domain contains no name
\* bound within t, substs(t, m) is t with exactly the Free variable
\* occurrences whose name is a key of m replaced by the mapped term, every
\* Bound variable and every other Free variable unchanged.
C1_SubstsReplacesExactlyMappedFreeVars ==
    (/\ tlast[1] = "substs"
     /\ MappingDomain(tlast[3]) \cap Term_binder_names(tlast[2]) = {})
        => term = Replaced(tlast[2], tlast[3])

\* C2: for every binder-carrying variant (Pi, Lam, Let, RecordType, Record and
\* each Case branch) substs applies the substitution to every annotation term
\* carried by the variant's pattern and to its body, and leaves the binder
\* display names stored in the pattern unchanged.
C2_SubstsReachesPatternAnnotationsAndBody ==
    tlast[1] = "substs" =>
        LET before == tlast[2]
            m == tlast[3]
            tag == before[1]
        IN  /\ tag \in {"Pi", "Lam", "Let"} =>
                /\ term[1] = tag
                /\ term[2] = before[2]
                /\ term[3] = Substs(before[3], m)
                /\ term[4] = Substs(before[4], m)
            /\ tag \in {"RecordType", "Record"} =>
                /\ term[1] = tag
                /\ Len(term[2]) = Len(before[2])
                /\ \A i \in 1..Len(before[2]) :
                        /\ term[2][i][1] = before[2][i][1]
                        /\ term[2][i][2] = before[2][i][2]
                        /\ term[2][i][3] = Substs(before[2][i][3], m)
            /\ tag = "Case" =>
                /\ term[1] = tag
                /\ Len(term[3]) = Len(before[3])
                /\ \A i \in 1..Len(before[3]) :
                        LET p == before[3][i][1]
                            q == term[3][i][1]
                        IN  /\ Pattern_binders(q) = Pattern_binders(p)
                            /\ Len(Pattern_terms(q)) = Len(Pattern_terms(p))
                            /\ \A j \in 1..Len(Pattern_terms(p)) :
                                    Pattern_terms(q)[j] = Substs(Pattern_terms(p)[j], m)
                            /\ term[3][i][2] = Substs(before[3][i][2], m)

\* C4: for every well-scoped pattern and body, binding the pattern's name over
\* the body and unbinding the scope with a fresh name gives a pattern and body
\* alpha-equivalent to the original (as a binder: re-closing the opened body
\* over the fresh name gives the closed body of the original); the fresh name
\* differs from every name live in the scope; and binding x over
\* App(Var(Free x), Var(Free x)) stores App(Var(Bound x@0), Var(Bound x@0)),
\* which unbinds to App(Var(Free x'), Var(Free x')).
C4_BindUnbindRoundTrip ==
    /\ (tlast[1] = "build" /\ term[1] \in {"Pi", "Lam", "Let"}
            /\ tlast[2] = T_App(VarX, VarX) /\ term[2] = User("x"))
        => term[4] = T_App(T_Var(Var_Bound(User("x"), 0), U32(0, 0)),
                           T_Var(Var_Bound(User("x"), 0), U32(0, 0)))
    /\ tlast[1] = "unbind" =>
        LET scope == tlast[2]
            fresh == tlast[3][1]
            ann == tlast[3][2]
            body == tlast[3][3]
        IN  /\ fresh \notin Term_free_names(scope) \cup Term_binder_names(scope)
            /\ body = term
            /\ tlast[4] # <<>> =>
                LET original == tlast[4][1]
                    name == scope[2]
                IN  /\ Term_alpha_eq(ann, scope[3])
                    /\ Term_alpha_eq(Term_close_at(body, 0, fresh),
                                     Term_close_at(original, 0, name))
                    /\ Term_free_names(body) =
                            (Term_free_names(original) \ {name})
                                \cup (IF name \in Term_free_names(original)
                                      THEN {fresh} ELSE {})
                    /\ original = T_App(VarX, VarX) /\ name = User("x") =>
                            body = T_App(T_Var(Var_Free(fresh), U32(0, 0)),
                                         T_Var(Var_Free(fresh), U32(0, 0)))

\* the scope binding x over App(x, x) has been unbound with a fresh name
C4_Witness ==
    /\ tlast[1] = "unbind"
    /\ tlast[4] = <<T_App(VarX, VarX)>>
    /\ tlast[2][2] = User("x")
    /\ tlast[2][4] = T_App(T_Var(Var_Bound(User("x"), 0), U32(0, 0)),
                           T_Var(Var_Bound(User("x"), 0), U32(0, 0)))
    /\ term = T_App(T_Var(Var_Free(Gen(0)), U32(0, 0)),
                    T_Var(Var_Free(Gen(0)), U32(0, 0)))


-----------------------------------------------------------------------------
(* Properties of shift_universes and of the embedding (SpecValue) *)

\* the cells a handle reaches
RECURSIVE Reach(_, _)
Reach(cells, a) ==
    {a} \cup UNION {Reach(cells, ChildAddrs(cells[a][2])[i]) :
                        i \in 1..Len(ChildAddrs(cells[a][2]))}

\* the tree handle k denoted before the first shift
OrigTree(k) == Tree(orig[1], orig[2][k])

\* the levels of the Universe values of a tree
RECURSIVE LevelsOf(_)
LevelsOf(tree) ==
    IF tree[1] = "Universe" THEN {tree[2]}
    ELSE UNION {LevelsOf(GetAt(tree, ChildPaths(tree)[i])) :
                    i \in 1..Len(ChildPaths(tree))}

InRange(tree, shift) == \A l \in LevelsOf(tree) : ~U32Overflows(l, shift)

\* the tree with shift added to the level of every Universe value, at every
\* depth, and nothing else touched
RECURSIVE Shifted(_, _)
Shifted(tree, shift) ==
    IF tree[1] = "Universe" THEN <<"Universe", U32WrappingAdd(tree[2], shift)>>
    ELSE LET ps == ChildPaths(tree)
             RECURSIVE Fill(_, _)
             Fill(n, i) ==
                IF i > Len(ps) THEN n
                ELSE Fill(SetAt(n, ps[i], Shifted(GetAt(tree, ps[i]), shift)), i + 1)
         IN  Fill(tree, 1)

\* C3: a call of shift_universes through handle k writes no node that another
\* handle reaches, so every other handle keeps its address and denotes the
\* same tree after the call as before it; the root is mutated in place when k
\* holds the sole reference to it and is cloned into a fresh cell otherwise.
C3_ShiftIsCopyOnWrite ==
    [][hlast'[1] = "shift" =>
        LET k == hlast'[2] IN
        /\ \A j \in Filled \ {k} :
            /\ roots'[j] = roots[j]
            /\ Tree(heap', roots'[j]) = Tree(heap, roots[j])
            /\ \A a \in Reach(heap, roots[j]) :
                heap'[a][1] >= 1 /\ heap'[a][2] = heap[a][2]
        /\ heap[roots[k]][1] = 1 => roots'[k] = roots[k]
        /\ heap[roots[k]][1] > 1 => roots'[k] \in FreeAddrs(heap)
      ]_vars

\* a shift through a handle whose cells another handle reaches changed the tree
C3_Witness ==
    /\ hlast[1] = "shift"
    /\ ~panicked
    /\ LET k == hlast[2] IN
        /\ Len(applied[k]) = 1
        /\ Tree(heap, roots[k]) # OrigTree(k)
        /\ \E j \in Filled \ {k} :
            /\ Reach(orig[1], orig[2][j]) \cap Reach(orig[1], orig[2][k]) # {}
            /\ Tree(heap, roots[j])[1] \notin {"Universe", "Literal"}

ShiftedOnce(k, shift) ==
    shift_universes([cells |-> orig[1], checks |-> overflow_checks,
                     panicked |-> FALSE, exhausted |-> FALSE],
                    orig[2][k], shift)

\* C6: shifting by a and then by b leaves the handle denoting the same value
\* as shifting once by a + b (and panics exactly when that does), and
\* shifting by 0 leaves the value unchanged.
C6_ShiftIsAdditive ==
    \A k \in Slots :
        /\ Len(applied[k]) = 2 =>
            LET sum == LevelShift_add(applied[k][1], applied[k][2], overflow_checks)
                once == ShiftedOnce(k, sum[2])
            IN  /\ sum[1]
                /\ ~once[1].exhausted
                /\ panicked = once[1].panicked
                /\ ~panicked => Tree(heap, roots[k]) = Tree(once[1].cells, once[2])
        /\ applied[k] = <<U32(0, 0)>> =>
            ~panicked /\ Tree(heap, roots[k]) = OrigTree(k)

\* two shifts, neither of them 0, changed a value with more than one node
C6_Witness ==
    \E k \in Slots :
        /\ Len(applied[k]) = 2
        /\ applied[k][1] # U32(0, 0)
        /\ applied[k][2] # U32(0, 0)
        /\ ~panicked
        /\ OrigTree(k)[1] # "Universe"
        /\ Tree(heap, roots[k]) # OrigTree(k)

\* App(...App(App(head, args[1]), args[2])..., args[n])
RECURSIVE LeftNested(_, _, _)
LeftNested(head, args, n) ==
    IF n = 0 THEN head ELSE T_App(LeftNested(head, args, n - 1), args[n])

\* C7: the embedding of Value::Neutral(n, [a1, ..., ak]) is the left-nested
\* application of the embedding of n to the embeddings of a1, ..., ak in spine
\* order; with an empty spine it is the embedding of n, with no App node.
C7_EmbedNeutralIsLeftNestedApp ==
    hlast[1] = "embed" =>
        LET v == Tree(heap, roots[hlast[2]])
            result == hlast[3]
        IN  v[1] = "Neutral" =>
                /\ result = LeftNested(Term_from_Neutral(v[2]),
                                       [i \in 1..Len(v[3]) |-> Term_from_Value(v[3][i])],
                                       Len(v[3]))
                /\ v[3] = <<>> =>
                        result = Term_from_Neutral(v[2]) /\ result[1] # "App"
                /\ Len(v[3]) = 2 =>
                        /\ result[1] = "App"
                        /\ result[3] = Term_from_Value(v[3][2])
                        /\ result[2][1] = "App"
                        /\ result[2][3] = Term_from_Value(v[3][1])
                        /\ result[2][2] = Term_from_Neutral(v[2])

\* a neutral with two different spine arguments was embedded
C7_Witness ==
    /\ hlast[1] = "embed"
    /\ LET v == Tree(heap, roots[hlast[2]]) IN
        /\ v[1] = "Neutral"
        /\ Len(v[3]) = 2
        /\ v[3][1] # v[3][2]


-----------------------------------------------------------------------------
(* Properties of is_whnf, is_nf, head_app and free_var_app (SpecValue) *)

\* the value the last reading call went through
Observed == Tree(heap, roots[hlast[2]])

\* a Value::Neutral occurs in the value, at the root or at any depth below it
RECURSIVE ContainsNeutral(_)
ContainsNeutral(tree) ==
    \/ tree[1] = "Neutral"
    \/ \E i \in 1..Len(ChildPaths(tree)) :
            ContainsNeutral(GetAt(tree, ChildPaths(tree)[i]))

\* C11: is_nf(v) is true if and only if no Value::Neutral occurs in v at any
\* depth: in the annotation or the body of a Pi / Lam, in a field of a
\* RecordType / Record or in an element of an Array.
C11_IsNfIffNoNeutral ==
    hlast[1] = "is_nf" => (hlast[3] <=> ~ContainsNeutral(Observed))

\* is_nf was false on a canonical value whose Neutral lies below its children
C11_Witness ==
    /\ hlast[1] = "is_nf"
    /\ hlast[3] = FALSE
    /\ Observed[1] # "Neutral"
    /\ \A i \in 1..Len(ChildPaths(Observed)) :
            GetAt(Observed, ChildPaths(Observed)[i])[1] # "Neutral"

\* a Pi value whose body is a Neutral application
PiOverNeutralApp(v) == v[1] = "Pi" /\ v[4][1] = "Neutral" /\ v[4][3] # <<>>

\* C12: for every value v, is_nf(v) implies is_whnf(v); the converse fails:
\* a Pi value whose body is a Neutral application has is_whnf true and
\* is_nf false.
C12_NfImpliesWhnf ==
    \A k \in Filled :
        LET v == Tree(heap, roots[k]) IN
        /\ Value_is_nf(v) => Value_is_whnf(v)
        /\ PiOverNeutralApp(v) => Value_is_whnf(v) /\ ~Value_is_nf(v)
        /\ (hlast[1] = "is_whnf" /\ hlast[2] = k /\ Value_is_nf(v)) => hlast[3]

\* is_whnf was true on a Pi whose body is a Neutral application
C12_Witness ==
    /\ hlast[1] = "is_whnf"
    /\ hlast[3] = TRUE
    /\ PiOverNeutralApp(Observed)
    /\ ~Value_is_nf(Observed)

\* C13: head_app(v) is Some((h, spine)) exactly when v is
\* Neutral(Neutral::Head(h), spine), with the spine as it is in v; it is None
\* for every canonical value and for every Neutral that is an If, a Proj or a
\* Case, whatever its spine.
C13_HeadAppOfBareHead ==
    hlast[1] = "head_app" =>
        LET v == Observed
            result == hlast[3]
            bare == v[1] = "Neutral" /\ v[2][1] \in {"NVar", "NExtern"}
        IN  /\ result[1] = "Some" <=> bare
            /\ result[1] = "None" <=> ~bare
            /\ bare =>
                /\ result[2] = v[2]
                /\ Len(result[3]) = Len(v[3])
                /\ \A i \in 1..Len(v[3]) : result[3][i] = v[3][i]
            /\ v[1] \in ValueTags \ {"Neutral"} => result = <<"None">>
            /\ (v[1] = "Neutral" /\ v[2][1] \in {"NIf", "NProj", "NCase"})
                    => result = <<"None">>

\* head_app gave the head and the two different spine arguments of a stuck
\* free variable
C13_Witness ==
    /\ hlast[1] = "head_app"
    /\ hlast[3][1] = "Some"
    /\ hlast[3][2][1] = "NVar"
    /\ IsFree(hlast[3][2][2])
    /\ Len(hlast[3][3]) = 2
    /\ hlast[3][3][1] # hlast[3][3][2]

\* C14: free_var_app(v) is Some((x, shift, spine)) exactly when head_app(v) is
\* Some((Head::Var(Free(x), shift), spine)); it is None when head_app(v) is
\* None and when the head is a Bound variable or an Extern.
C14_FreeVarAppOfFreeHead ==
    hlast[1] = "free_var_app" =>
        LET app == Value_head_app(Observed)
            result == hlast[3]
            free == app[1] = "Some" /\ app[2][1] = "NVar" /\ app[2][2][1] = "Free"
        IN  /\ free => result = <<"Some", app[2][2][2], app[2][3], app[3]>>
            /\ ~free => result = <<"None">>
            /\ app = <<"None">> => result = <<"None">>
            /\ (app[1] = "Some" /\ app[2][1] = "NExtern") => result = <<"None">>
            /\ (app[1] = "Some" /\ app[2][1] = "NVar" /\ app[2][2][1] = "Bound")
                    => result = <<"None">>

\* free_var_app gave the name, the shift and a spine argument of a stuck free
\* variable
C14_Witness ==
    /\ hlast[1] = "free_var_app"
    /\ hlast[3][1] = "Some"
    /\ hlast[3][2] = User("f")
    /\ Len(hlast[3][4]) >= 1


-----------------------------------------------------------------------------
(* Alpha-equivalence as a relation, and close_at called twice (SpecVar) *)

\* the terms built over one variable: the variable itself, and a lambda over
\* it under either display name of the binder
TermsOver(v) ==
    {T_Var(v, U32(0, 0)),
     T_App(T_Var(v, U32(0, 0)), T_Var(v, U32(0, 0))),
     T_Lam(User("x"), T_Universe(U32(0, 0)), T_Var(v, U32(0, 0))),
     T_Lam(User("y"), T_Universe(U32(0, 0)), T_Var(v, U32(0, 0)))}

\* C15: alpha-equivalence on variables and on terms built from them is an
\* equivalence relation: alpha_eq(a, a) holds, alpha_eq(a, b) implies
\* alpha_eq(b, a), and alpha_eq(a, b) with alpha_eq(b, c) implies
\* alpha_eq(a, c); a is the variable, b the one it was compared with, c any.
C15_AlphaEqIsEquivalence ==
    vlast[1] = "alpha_eq" =>
        LET a == var
            b == vlast[2]
        IN  /\ Var_alpha_eq(a, a)
            /\ vlast[3] => Var_alpha_eq(b, a)
            /\ \A c \in Vars :
                    (vlast[3] /\ Var_alpha_eq(b, c)) => Var_alpha_eq(a, c)
            /\ \A ta \in TermsOver(a), tb \in TermsOver(b) :
                /\ Term_alpha_eq(ta, ta)
                /\ Term_alpha_eq(ta, tb) => Term_alpha_eq(tb, ta)
                /\ \A c \in Vars : \A tc \in TermsOver(c) :
                        (Term_alpha_eq(ta, tb) /\ Term_alpha_eq(tb, tc))
                            => Term_alpha_eq(ta, tc)

\* two bound variables with different display names were found alpha-equal
C15_Witness ==
    /\ vlast[1] = "alpha_eq"
    /\ vlast[3] = TRUE
    /\ IsBound(var)
    /\ var # vlast[2]

\* C16: close_at is idempotent: a second close_at with the same index and
\* name (vlast[5]) leaves the variable as the first call left it, which is
\* Bound when the first call rewrote it.
C16_CloseAtIsIdempotent ==
    (vlast[1] = "close_at" /\ vlast[5]) => var = vlast[2]

\* the second of two equal close_at calls met the Bound variable the first
\* one made
C16_Witness ==
    /\ vlast[1] = "close_at"
    /\ vlast[5]
    /\ vlast[2] = Var_Bound(vlast[4], vlast[3])
    /\ var = vlast[2]


-----------------------------------------------------------------------------
(* Shifting past the largest Level (SpecValue) *)

\* level + shift as a number, not reduced to 32 bits: <<carry, high, low>>
ExactSum(level, shift) ==
    <<U32HighSum(level, shift) \div Limb, U32HighSum(level, shift) % Limb,
      (level[2] + shift[2]) % Limb>>

\* the tree with every Universe level replaced by the number level + shift
RECURSIVE ExactShifted(_, _)
ExactShifted(tree, shift) ==
    IF tree[1] = "Universe" THEN <<"Universe", ExactSum(tree[2], shift)>>
    ELSE LET ps == ChildPaths(tree)
             RECURSIVE Fill(_, _)
             Fill(n, i) ==
                IF i > Len(ps) THEN n
                ELSE Fill(SetAt(n, ps[i], ExactShifted(GetAt(tree, ps[i]), shift)),
                          i + 1)
         IN  Fill(tree, 1)

\* the tree with every Universe level read as a number
Widened(tree) == ExactShifted(tree, U32(0, 0))

\* C17: shift_universes is total: for every value and every shift s the call
\* completes without a panic and every Universe level L of the value becomes
\* the number L + s, also when L + s is more than the largest u32.
C17_ShiftIsTotalAndExact ==
    \A k \in Slots :
        Len(applied[k]) = 1 =>
            /\ ~panicked
            /\ Widened(Tree(heap, roots[k])) = ExactShifted(OrigTree(k), applied[k][1])


-----------------------------------------------------------------------------
(* Properties of reparse_pi_type_hack (SpecParse) *)

\* the sub-terms of a parameter term that are not applications, left to right
RECURSIVE Leaves(_)
Leaves(t) == IF t[1] = "CApp" THEN Leaves(t[2]) \o Leaves(t[3]) ELSE <<t>>

\* the binder is a parenthesised annotation (params : ann)
IsParenAnn(b) == b[1] = "CParens" /\ b[3][1] = "CAnn"

\* C18: when the binder of a pi type is a parenthesised annotation
\* (params : ann), reparse_pi_type_hack gives a Pi over the parameter names in
\* left-to-right order if params is built only from variables and applications
\* of them; otherwise it fails with IdentifierExpectedInPiType carrying the
\* span of the first sub-term, left to right, that is neither, and gives no Pi
\* and no Arrow; "((x : Type) : Type) -> Type" fails with span 1..11.
C18_ReparsePiTypeHack ==
    (plast[1] = "reparse" /\ IsParenAnn(plast[2])) =>
        LET leaves == Leaves(plast[2][3][2])
            ann == plast[2][3][3]
            offending == {i \in 1..Len(leaves) : leaves[i][1] # "CVar"}
            result == plast[4]
        IN  /\ offending = {} =>
                result = <<"Ok", C_Pi(0, [i \in 1..Len(leaves) |->
                                            <<leaves[i][2], leaves[i][3]>>],
                                      ann, plast[3])>>
            /\ offending # {} =>
                result = <<"Err", <<"IdentifierExpectedInPiType",
                                    Term_span(leaves[Min(offending)])>>>>
            /\ result[1] = "Ok" <=> offending = {}
            /\ plast[2][3][2] = C_Parens(<<1, 11>>,
                    C_Ann(C_Var(<<2, 3>>, "x"), C_Universe(<<6, 10>>)))
                => result = <<"Err", <<"IdentifierExpectedInPiType", <<1, 11>>>>>>

\* the parameters x Type (y) of a parenthesised annotation were refused with
\* the span of Type, the first of the two that are not variables
C18_Witness ==
    /\ plast[1] = "reparse"
    /\ IsParenAnn(plast[2])
    /\ plast[4][1] = "Err"
    /\ LET leaves == Leaves(plast[2][3][2]) IN
        /\ Len(leaves) = 3
        /\ leaves[1][1] = "CVar"
        /\ leaves[2][1] = "CUniverse"
        /\ leaves[3][1] = "CParens"
        /\ plast[4][2][2] = leaves[2][2]

====
